---- MODULE Spec2Model ----
(***************************************************************************)
(* Model of rustguard's embedded modal editor (src/main.rs): EditorState,  *)
(* EditorState::new, EditorState::handle_event, and the part of main's     *)
(* event loop that opens an editing session and handles its outcome.       *)
(*                                                                         *)
(* A Rust String is modelled as the sequence of its UTF-8 bytes, because   *)
(* the code's cursor_col is a byte offset (it is compared with len() and   *)
(* passed to String::insert / remove / split_off, which panic when the     *)
(* offset is not on a character boundary).  Offsets are 0-based as in the  *)
(* source; TLA+ sequences are 1-based, so byte i of s is s[i + 1].         *)
(*                                                                         *)
(* Two specifications are defined over the same handler:                   *)
(*   Spec     one editing session, from EditorState::new on a given text   *)
(*            until handle_event returns an outcome, recording the last    *)
(*            key event (ev) and the editor state before it (pre);         *)
(*   AppSpec  main's event loop: Manager screen, opening sessions on the   *)
(*            profile's file, saving, cancelling, logging.                 *)
(***************************************************************************)
EXTENDS Integers, Sequences, FiniteSets, TLC

VARIABLES
    screen,        \* main: `screen`, the tag of the active Screen
    editor_state,  \* the EditorState carried by Screen::Editor
    result,        \* what the last handle_event call returned
    running,       \* "running", "exited" (q), or "panicked"
    file,          \* content of /etc/wireguard/<profile>.conf
    content,       \* Spec only: the text given to EditorState::new, kept
                   \*   until the session handles its first key event
    status_log,    \* main: `status_log`
    log_file,      \* lines appended to /var/log/rustguard.log
    io,            \* the session's fs::write calls, and the file as opened
    sessions,      \* number of editing sessions opened so far
    ev,            \* Spec only: the key event handled last
    pre            \* Spec only: editor_state before that event

vars == <<screen, editor_state, result, running, file, content,
          status_log, log_file, io, sessions, ev, pre>>

(***************************************************************************)
(* Bounds of the model.                                                    *)
(***************************************************************************)
\* Spec: lines and bytes of text the buffer is allowed to grow to.
MaxLines == 3
MaxBytes == 3
\* AppSpec: the same for its sessions, and the number of sessions opened.
AppMaxLines == 2
AppMaxBytes == 1
MaxSessions == 2

(***************************************************************************)
(* Bytes and characters.                                                   *)
(***************************************************************************)
\* Bytes 0x80..0xBF: never the first byte of a character.
ContBytes == {"A9"}

\* char::encode_utf8: U+00E9 is the two bytes C3 A9, ASCII is one byte.
Utf8(c) == IF c = "é" THEN <<"C3", "A9">> ELSE <<c>>

\* str::is_char_boundary
IsCharBoundary(s, idx) ==
    \/ idx = 0
    \/ idx = Len(s)
    \/ idx < Len(s) /\ s[idx + 1] \notin ContBytes

\* Number of bytes of the character that starts at byte offset idx.
CharLenAt(s, idx) == IF s[idx + 1] = "C3" THEN 2 ELSE 1

\* String::insert(idx, ch); the caller has checked the boundary.
StrInsert(s, idx, c) ==
    SubSeq(s, 1, idx) \o Utf8(c) \o SubSeq(s, idx + 1, Len(s))

\* String::remove(idx): removes the whole character starting at idx.
StrRemove(s, idx) ==
    SubSeq(s, 1, idx) \o SubSeq(s, idx + CharLenAt(s, idx) + 1, Len(s))

\* Vec::insert(index, element)
VecInsert(v, idx, x) == SubSeq(v, 1, idx) \o <<x>> \o SubSeq(v, idx + 1, Len(v))

\* Vec::remove(index)
VecRemove(v, idx) == SubSeq(v, 1, idx) \o SubSeq(v, idx + 2, Len(v))

Min(a, b) == IF a < b THEN a ELSE b

(***************************************************************************)
(* str::lines and [String]::join, as used by EditorState::new and by the   *)
(* save branch of main.                                                    *)
(***************************************************************************)
\* Offset (1-based) of the first "LF" of s, 0 when there is none.
RECURSIVE FirstLF(_, _)
FirstLF(s, i) ==
    IF i > Len(s) THEN 0
    ELSE IF s[i] = "LF" THEN i
    ELSE FirstLF(s, i + 1)

\* str::split_inclusive('\n'): each piece keeps its terminating newline.
RECURSIVE SplitInclusive(_)
SplitInclusive(s) ==
    IF s = <<>> THEN <<>>
    ELSE LET i == FirstLF(s, 1) IN
         IF i = 0 THEN <<s>>
         ELSE <<SubSeq(s, 1, i)>> \o SplitInclusive(SubSeq(s, i + 1, Len(s)))

\* Variant of LinesMap that strips the newline only.
LinesMap_KeepsCR(line) ==
    IF line = <<>> \/ line[Len(line)] # "LF" THEN line
    ELSE SubSeq(line, 1, Len(line) - 1)

\* The closure str::lines maps over the pieces: strip "\n", then "\r".
LinesMap(line) ==
    IF line = <<>> \/ line[Len(line)] # "LF" THEN line
    ELSE LET l1 == SubSeq(line, 1, Len(line) - 1) IN
         IF l1 = <<>> \/ l1[Len(l1)] # "CR" THEN l1
         ELSE SubSeq(l1, 1, Len(l1) - 1)

\* content.lines().map(|l| l.to_string()).collect()
StrLines(s) ==
    LET pieces == SplitInclusive(s) IN
    [i \in 1..Len(pieces) |-> LinesMap(pieces[i])]

\* Variant of Join that concatenates without the separator.
RECURSIVE Join_NoSeparator(_)
Join_NoSeparator(ls) ==
    IF ls = <<>> THEN <<>> ELSE ls[1] \o Join_NoSeparator(Tail(ls))

\* lines.join("\n")
RECURSIVE Join(_)
Join(ls) ==
    IF ls = <<>> THEN <<>>
    ELSE IF Len(ls) = 1 THEN ls[1]
    ELSE ls[1] \o <<"LF">> \o Join(Tail(ls))

RECURSIVE TotalBytes(_)
TotalBytes(ls) == IF ls = <<>> THEN 0 ELSE Len(ls[1]) + TotalBytes(Tail(ls))

(***************************************************************************)
(* EditorState                                                             *)
(***************************************************************************)
Profile == "wg0"

\* Variant of New without the is_empty branch.
New_NoEmptyCheck(profile, text) ==
    [ profile         |-> profile,
      lines           |-> StrLines(text),
      cursor_row      |-> 0,
      cursor_col      |-> 0,
      mode            |-> "Normal",
      show_cheatsheet |-> FALSE ]

\* EditorState::new
New(profile, text) ==
    [ profile         |-> profile,
      lines           |-> IF text = <<>> THEN << <<>> >> ELSE StrLines(text),
      cursor_row      |-> 0,
      cursor_col      |-> 0,
      mode            |-> "Normal",
      show_cheatsheet |-> FALSE ]

\* What handle_event does with one event: the new state, the returned
\* Option<&str>, and whether the call panicked instead of returning.
Ret(st, r) == [st |-> st, ret |-> r, panic |-> FALSE]
Panicked(st) == [st |-> st, ret |-> "none", panic |-> TRUE]

CurLine(self) == self.lines[self.cursor_row + 1]

(***************************************************************************)
(* handle_event, Normal mode (one definition per match arm).               *)
(***************************************************************************)
\* Variant of HideCheatsheet that consumes the key but leaves the flag set.
HideCheatsheet_Keeps(self) == Ret(self, "none")

\* The guard before the match: any key hides a visible cheatsheet.
HideCheatsheet(self) == Ret([self EXCEPT !.show_cheatsheet = FALSE], "none")

\* KeyCode::Char('h') | KeyCode::Left
NormalLeft(self) ==
    IF self.cursor_col > 0
    THEN Ret([self EXCEPT !.cursor_col = self.cursor_col - 1], "none")
    ELSE Ret(self, "none")

\* Variant of NormalRight that wraps to the next line as Insert mode does.
NormalRight_Wraps(self) ==
    IF self.cursor_col < Len(CurLine(self))
    THEN Ret([self EXCEPT !.cursor_col = self.cursor_col + 1], "none")
    ELSE IF self.cursor_row + 1 < Len(self.lines)
    THEN Ret([self EXCEPT !.cursor_row = self.cursor_row + 1,
                          !.cursor_col = 0],
             "none")
    ELSE Ret(self, "none")

\* KeyCode::Char('l') | KeyCode::Right
NormalRight(self) ==
    IF self.cursor_row < Len(self.lines) /\ self.cursor_col < Len(CurLine(self))
    THEN Ret([self EXCEPT !.cursor_col = self.cursor_col + 1], "none")
    ELSE Ret(self, "none")

\* Variant of NormalUp that keeps the column when the row changes.
NormalUp_NoClamp(self) ==
    IF self.cursor_row > 0
    THEN Ret([self EXCEPT !.cursor_row = self.cursor_row - 1], "none")
    ELSE Ret(self, "none")

\* KeyCode::Char('k') | KeyCode::Up
NormalUp(self) ==
    IF self.cursor_row > 0
    THEN IF self.cursor_row - 1 >= Len(self.lines) THEN Panicked(self)
         ELSE Ret([self EXCEPT
                     !.cursor_row = self.cursor_row - 1,
                     !.cursor_col = Min(self.cursor_col,
                                        Len(self.lines[self.cursor_row]))],
                  "none")
    ELSE Ret(self, "none")

\* KeyCode::Char('j') | KeyCode::Down
NormalDown(self) ==
    IF self.cursor_row + 1 < Len(self.lines)
    THEN Ret([self EXCEPT
                !.cursor_row = self.cursor_row + 1,
                !.cursor_col = Min(self.cursor_col,
                                   Len(self.lines[self.cursor_row + 2]))],
             "none")
    ELSE Ret(self, "none")

\* KeyCode::Char('i')
NormalI(self) == Ret([self EXCEPT !.mode = "Insert"], "none")

\* KeyCode::Char('a')
NormalA(self) ==
    LET col == IF self.cursor_row < Len(self.lines)
                  /\ self.cursor_col < Len(CurLine(self))
               THEN self.cursor_col + 1
               ELSE self.cursor_col
    IN Ret([self EXCEPT !.cursor_col = col, !.mode = "Insert"], "none")

\* Variant of NormalO that carries the rest of the line to the new line.
NormalO_Splits(self) ==
    LET row  == self.cursor_row + 1
        line == CurLine(self)
    IN Ret([self EXCEPT
              !.cursor_row = row,
              !.lines = VecInsert(
                  [self.lines EXCEPT ![row] = SubSeq(line, 1, self.cursor_col)],
                  row, SubSeq(line, self.cursor_col + 1, Len(line))),
              !.cursor_col = 0,
              !.mode = "Insert"],
           "none")

\* KeyCode::Char('o')
NormalO(self) ==
    LET row == self.cursor_row + 1 IN
    IF row > Len(self.lines) THEN Panicked(self)
    ELSE Ret([self EXCEPT
                !.cursor_row = row,
                !.lines = VecInsert(self.lines, row, <<>>),
                !.cursor_col = 0,
                !.mode = "Insert"],
             "none")

\* KeyCode::Char('x')
NormalX(self) ==
    IF self.cursor_row < Len(self.lines) /\ self.cursor_col < Len(CurLine(self))
    THEN IF ~IsCharBoundary(CurLine(self), self.cursor_col) THEN Panicked(self)
         ELSE Ret([self EXCEPT
                     !.lines[self.cursor_row + 1] =
                         StrRemove(CurLine(self), self.cursor_col)],
                  "none")
    ELSE Ret(self, "none")

\* Variant of NormalD that moves the row up whenever it is not the first.
NormalD_RowUp(self) ==
    IF Len(self.lines) > 1
    THEN LET ls  == VecRemove(self.lines, self.cursor_row)
             row == IF self.cursor_row > 0
                    THEN self.cursor_row - 1 ELSE self.cursor_row
         IN Ret([self EXCEPT
                   !.lines = ls,
                   !.cursor_row = row,
                   !.cursor_col = Min(self.cursor_col, Len(ls[row + 1]))],
                "none")
    ELSE Ret([self EXCEPT !.lines[1] = <<>>, !.cursor_col = 0], "none")

\* KeyCode::Char('D')
NormalD(self) ==
    IF Len(self.lines) > 1
    THEN IF self.cursor_row >= Len(self.lines) THEN Panicked(self)
         ELSE LET ls  == VecRemove(self.lines, self.cursor_row)
                  row == IF self.cursor_row >= Len(ls)
                         THEN Len(ls) - 1 ELSE self.cursor_row
              IN Ret([self EXCEPT
                        !.lines = ls,
                        !.cursor_row = row,
                        !.cursor_col = Min(self.cursor_col, Len(ls[row + 1]))],
                     "none")
    ELSE IF Len(self.lines) = 0 THEN Panicked(self)
    ELSE Ret([self EXCEPT !.lines[1] = <<>>, !.cursor_col = 0], "none")

\* KeyCode::Char('?')
NormalToggleCheatsheet(self) ==
    Ret([self EXCEPT !.show_cheatsheet = ~self.show_cheatsheet], "none")

\* Variant of NormalSave that returns no outcome.
NormalSave_Ignored(self) == Ret(self, "none")

\* KeyCode::Char('s') if key.modifiers.contains(KeyModifiers::CONTROL)
NormalSave(self) == Ret(self, "saved")

\* KeyCode::Esc
NormalEsc(self) == Ret(self, "cancel")

IsChar(key, c) == key.code = "Char" /\ key.c = c

\* Variant of NormalDispatch whose movement arms take the letters only.
NormalDispatch_LettersOnly(self, key) ==
    IF IsChar(key, "h") THEN NormalLeft(self)
    ELSE IF IsChar(key, "l") THEN NormalRight(self)
    ELSE IF IsChar(key, "k") THEN NormalUp(self)
    ELSE IF IsChar(key, "j") THEN NormalDown(self)
    ELSE IF IsChar(key, "i") THEN NormalI(self)
    ELSE IF IsChar(key, "a") THEN NormalA(self)
    ELSE IF IsChar(key, "o") THEN NormalO(self)
    ELSE IF IsChar(key, "x") THEN NormalX(self)
    ELSE IF IsChar(key, "D") THEN NormalD(self)
    ELSE IF IsChar(key, "?") THEN NormalToggleCheatsheet(self)
    ELSE IF IsChar(key, "s") /\ key.ctrl THEN NormalSave(self)
    ELSE IF key.code = "Esc" THEN NormalEsc(self)
    ELSE Ret(self, "none")

\* match key.code { ... } of Normal mode
NormalDispatch(self, key) ==
    IF IsChar(key, "h") \/ key.code = "Left"  THEN NormalLeft(self)
    ELSE IF IsChar(key, "l") \/ key.code = "Right" THEN NormalRight(self)
    ELSE IF IsChar(key, "k") \/ key.code = "Up"    THEN NormalUp(self)
    ELSE IF IsChar(key, "j") \/ key.code = "Down"  THEN NormalDown(self)
    ELSE IF IsChar(key, "i") THEN NormalI(self)
    ELSE IF IsChar(key, "a") THEN NormalA(self)
    ELSE IF IsChar(key, "o") THEN NormalO(self)
    ELSE IF IsChar(key, "x") THEN NormalX(self)
    ELSE IF IsChar(key, "D") THEN NormalD(self)
    ELSE IF IsChar(key, "?") THEN NormalToggleCheatsheet(self)
    ELSE IF IsChar(key, "s") /\ key.ctrl THEN NormalSave(self)
    ELSE IF key.code = "Esc" THEN NormalEsc(self)
    ELSE Ret(self, "none")

\* Variant of HandleNormal without the cheatsheet guard.
HandleNormal_NoGuard(self, key) == NormalDispatch(self, key)

\* Variant of HandleNormal that tests the save combination before the guard.
HandleNormal_SaveFirst(self, key) ==
    IF IsChar(key, "s") /\ key.ctrl THEN NormalSave(self)
    ELSE IF self.show_cheatsheet THEN HideCheatsheet(self)
    ELSE NormalDispatch(self, key)

\* EditorMode::Normal => { ... }
HandleNormal(self, key) ==
    IF self.show_cheatsheet THEN HideCheatsheet(self)
    ELSE NormalDispatch(self, key)

(***************************************************************************)
(* handle_event, Insert mode.                                              *)
(***************************************************************************)
\* Variant of InsertEsc that ends the session as Normal mode's Esc does.
InsertEsc_Cancels(self) == Ret(self, "cancel")

\* KeyCode::Esc
InsertEsc(self) == Ret([self EXCEPT !.mode = "Normal"], "none")

\* KeyCode::Char(c) if !key.modifiers.contains(KeyModifiers::CONTROL)
InsertChar(self, c) ==
    IF self.cursor_row < Len(self.lines)
    THEN IF ~IsCharBoundary(CurLine(self), self.cursor_col) THEN Panicked(self)
         ELSE Ret([self EXCEPT
                     !.lines[self.cursor_row + 1] =
                         StrInsert(CurLine(self), self.cursor_col, c),
                     !.cursor_col = self.cursor_col + 1],
                  "none")
    ELSE Ret(self, "none")

\* KeyCode::Enter
InsertEnter(self) ==
    IF self.cursor_row < Len(self.lines)
    THEN IF ~IsCharBoundary(CurLine(self), self.cursor_col) THEN Panicked(self)
         ELSE LET line     == CurLine(self)
                  head     == SubSeq(line, 1, self.cursor_col)
                  new_line == SubSeq(line, self.cursor_col + 1, Len(line))
              IN Ret([self EXCEPT
                        !.lines = VecInsert(
                            [self.lines EXCEPT ![self.cursor_row + 1] = head],
                            self.cursor_row + 1, new_line),
                        !.cursor_row = self.cursor_row + 1,
                        !.cursor_col = 0],
                     "none")
    ELSE Ret(self, "none")

\* KeyCode::Backspace
InsertBackspace(self) ==
    IF self.cursor_col > 0
    THEN IF self.cursor_row < Len(self.lines)
         THEN IF \/ self.cursor_col - 1 >= Len(CurLine(self))
                 \/ ~IsCharBoundary(CurLine(self), self.cursor_col - 1)
              THEN Panicked(self)
              ELSE Ret([self EXCEPT
                          !.lines[self.cursor_row + 1] =
                              StrRemove(CurLine(self), self.cursor_col - 1),
                          !.cursor_col = self.cursor_col - 1],
                       "none")
         ELSE Ret(self, "none")
    ELSE IF self.cursor_row > 0
    THEN IF self.cursor_row >= Len(self.lines) THEN Panicked(self)
         ELSE LET current_line == CurLine(self)
                  ls  == VecRemove(self.lines, self.cursor_row)
                  row == self.cursor_row - 1
              IN Ret([self EXCEPT
                        !.lines = [ls EXCEPT ![row + 1] = ls[row + 1] \o current_line],
                        !.cursor_row = row,
                        !.cursor_col = Len(ls[row + 1])],
                     "none")
    ELSE Ret(self, "none")

\* Variant of InsertLeft that stops at column 0 as Normal mode does.
InsertLeft_NoWrap(self) ==
    IF self.cursor_col > 0
    THEN Ret([self EXCEPT !.cursor_col = self.cursor_col - 1], "none")
    ELSE Ret(self, "none")

\* KeyCode::Left
InsertLeft(self) ==
    IF self.cursor_col > 0
    THEN Ret([self EXCEPT !.cursor_col = self.cursor_col - 1], "none")
    ELSE IF self.cursor_row > 0
    THEN Ret([self EXCEPT
                !.cursor_row = self.cursor_row - 1,
                !.cursor_col = Len(self.lines[self.cursor_row])],
             "none")
    ELSE Ret(self, "none")

\* KeyCode::Right
InsertRight(self) ==
    IF self.cursor_row < Len(self.lines)
    THEN IF self.cursor_col < Len(CurLine(self))
         THEN Ret([self EXCEPT !.cursor_col = self.cursor_col + 1], "none")
         ELSE IF self.cursor_row + 1 < Len(self.lines)
         THEN Ret([self EXCEPT !.cursor_row = self.cursor_row + 1,
                               !.cursor_col = 0],
                  "none")
         ELSE Ret(self, "none")
    ELSE Ret(self, "none")

\* KeyCode::Up
InsertUp(self) ==
    IF self.cursor_row > 0
    THEN Ret([self EXCEPT
                !.cursor_row = self.cursor_row - 1,
                !.cursor_col = Min(self.cursor_col,
                                   Len(self.lines[self.cursor_row]))],
             "none")
    ELSE Ret(self, "none")

\* Variant of InsertDown that keeps the column when the row changes.
InsertDown_NoClamp(self) ==
    IF self.cursor_row + 1 < Len(self.lines)
    THEN Ret([self EXCEPT !.cursor_row = self.cursor_row + 1], "none")
    ELSE Ret(self, "none")

\* KeyCode::Down
InsertDown(self) ==
    IF self.cursor_row + 1 < Len(self.lines)
    THEN Ret([self EXCEPT
                !.cursor_row = self.cursor_row + 1,
                !.cursor_col = Min(self.cursor_col,
                                   Len(self.lines[self.cursor_row + 2]))],
             "none")
    ELSE Ret(self, "none")

\* KeyCode::Char('s') if key.modifiers.contains(KeyModifiers::CONTROL)
InsertSave(self) == Ret(self, "saved")

\* Variant of InsertsText that ignores the modifiers.
InsertsText_IgnoresCtrl(key) == key.code = "Char"

\* The guard of the Char(c) arm.
InsertsText(key) == key.code = "Char" /\ ~key.ctrl

\* Variant of HandleInsert in which Tab leaves Insert mode as Esc does.
HandleInsert_TabLeaves(self, key) ==
    IF key.code \in {"Esc", "Tab"} THEN InsertEsc(self)
    ELSE IF InsertsText(key) THEN InsertChar(self, key.c)
    ELSE IF key.code = "Enter" THEN InsertEnter(self)
    ELSE IF key.code = "Backspace" THEN InsertBackspace(self)
    ELSE IF key.code = "Left" THEN InsertLeft(self)
    ELSE IF key.code = "Right" THEN InsertRight(self)
    ELSE IF key.code = "Up" THEN InsertUp(self)
    ELSE IF key.code = "Down" THEN InsertDown(self)
    ELSE IF IsChar(key, "s") /\ key.ctrl THEN InsertSave(self)
    ELSE Ret(self, "none")

\* EditorMode::Insert => { ... }
HandleInsert(self, key) ==
    IF key.code = "Esc" THEN InsertEsc(self)
    ELSE IF InsertsText(key) THEN InsertChar(self, key.c)
    ELSE IF key.code = "Enter" THEN InsertEnter(self)
    ELSE IF key.code = "Backspace" THEN InsertBackspace(self)
    ELSE IF key.code = "Left" THEN InsertLeft(self)
    ELSE IF key.code = "Right" THEN InsertRight(self)
    ELSE IF key.code = "Up" THEN InsertUp(self)
    ELSE IF key.code = "Down" THEN InsertDown(self)
    ELSE IF IsChar(key, "s") /\ key.ctrl THEN InsertSave(self)
    ELSE Ret(self, "none")

\* EditorState::handle_event
HandleEvent(self, key) ==
    IF self.mode = "Normal" THEN HandleNormal(self, key)
    ELSE HandleInsert(self, key)

(***************************************************************************)
(* Key events.  A KeyEvent is its code (with the character of a Char code) *)
(* and whether its modifiers contain CONTROL.                              *)
(***************************************************************************)
CharKeys == {"h", "j", "k", "l", "i", "a", "o", "x", "D", "?", "s", "z", "é"}
OtherCodes == {"Left", "Right", "Up", "Down", "Enter", "Backspace", "Esc", "Tab"}

CtrlKeys == {"s", "a"}

Keys ==
    [code : {"Char"}, c : CharKeys, ctrl : {FALSE}]
        \cup [code : {"Char"}, c : CtrlKeys, ctrl : {TRUE}]
        \cup [code : OtherCodes, c : {""}, ctrl : {FALSE}]

NoKey == [code |-> "None", c |-> "", ctrl |-> FALSE]
CtrlS == [code |-> "Char", c |-> "s", ctrl |-> TRUE]
EscKey == [code |-> "Esc", c |-> "", ctrl |-> FALSE]
ToggleKey == [code |-> "Char", c |-> "?", ctrl |-> FALSE]

\* The characters the user types as text, and the profile texts a session
\* is opened on: plain lines, a final newline, CR LF, a bare CR, an empty
\* line, the empty file, and a two-byte character.
TypedChars == {"a", "é"}

Texts ==
    { <<>>,
      <<"a">>,
      <<"a", "LF">>,
      <<"LF">>,
      <<"a", "LF", "a">>,
      <<"a", "CR", "LF", "a">>,
      <<"CR">>,
      <<"a", "LF", "LF", "a">>,
      <<"C3", "A9">>,
      <<"C3", "A9", "LF", "a", "LF">> }

\* The files AppSpec starts from.
AppTexts ==
    { <<>>,
      <<"a", "LF">>,
      <<"a", "CR", "LF", "a">>,
      <<"C3", "A9">> }

\* The environment keeps the buffer within the bounds of the model: it
\* sends no key that would add a line beyond max_lines or a byte beyond
\* max_bytes, and types only characters of TypedChars.
Admissible(self, key, max_lines, max_bytes) ==
    /\ (self.mode = "Insert" /\ key.code = "Char" /\ ~key.ctrl) =>
           /\ key.c \in TypedChars
           /\ TotalBytes(self.lines) + Len(Utf8(key.c)) <= max_bytes
    /\ (self.mode = "Insert" /\ key.code = "Enter") =>
           Len(self.lines) < max_lines
    /\ (self.mode = "Normal" /\ ~self.show_cheatsheet /\ IsChar(key, "o")) =>
           Len(self.lines) < max_lines

(***************************************************************************)
(* Spec: one editing session.                                              *)
(***************************************************************************)
\* The value of editor_state while no Screen::Editor exists.
NoEditor ==
    [ profile |-> "", lines |-> <<>>, cursor_row |-> 0, cursor_col |-> 0,
      mode |-> "Normal", show_cheatsheet |-> FALSE ]

NoWrite(f) == [writes |-> 0, data |-> <<>>, ok |-> TRUE, before |-> f]

Init ==
    /\ content \in Texts
    /\ file = <<>>
    /\ editor_state = NoEditor
    /\ screen = "Manager"
    /\ result = "none"
    /\ running = "running"
    /\ status_log = <<>>
    /\ log_file = <<>>
    /\ io = NoWrite(<<>>)
    /\ sessions = 0
    /\ ev = NoKey
    /\ pre = NoEditor

\* screen = Screen::Editor(EditorState::new(selected, content))
Construct ==
    /\ screen = "Manager"
    /\ sessions = 0
    /\ editor_state' = New(Profile, content)
    /\ screen' = "Editor"
    /\ sessions' = 1
    /\ pre' = editor_state'
    /\ UNCHANGED <<result, running, file, content, status_log, log_file, io, ev>>

\* editor_state.handle_event(key), until it returns an outcome.
Feed(key) ==
    /\ screen = "Editor"
    /\ running = "running"
    /\ result = "none"
    /\ Admissible(editor_state, key, MaxLines, MaxBytes)
    /\ LET r == HandleEvent(editor_state, key) IN
         /\ editor_state' = r.st
         /\ result' = r.ret
         /\ running' = IF r.panic THEN "panicked" ELSE running
    /\ ev' = key
    /\ pre' = editor_state
    /\ content' = <<>>
    /\ UNCHANGED <<screen, file, status_log, log_file, io, sessions>>

Next ==
    \/ Construct
    \/ \E key \in Keys : Feed(key)

Spec == Init /\ [][Next]_vars

(***************************************************************************)
(* AppSpec: main's event loop around the editor.                           *)
(***************************************************************************)
\* fs::read_to_string fails on a file that is not valid UTF-8.
RECURSIVE ValidUtf8(_)
ValidUtf8(s) ==
    IF s = <<>> THEN TRUE
    ELSE IF s[1] = "C3"
    THEN Len(s) >= 2 /\ s[2] \in ContBytes /\ ValidUtf8(SubSeq(s, 3, Len(s)))
    ELSE s[1] \notin ContBytes /\ ValidUtf8(Tail(s))

\* fs::read_to_string(&filename).unwrap_or_default()
ReadToString(f, read_ok) == IF read_ok /\ ValidUtf8(f) THEN f ELSE <<>>

\* fs::write(&filename, data): on success the file holds data; on failure
\* it is untouched (create failed) or holds a proper prefix of data.
FsWrite(f, data) ==
    {[ok |-> TRUE, file |-> data]}
        \cup {[ok |-> FALSE, file |-> f]}
        \cup {[ok |-> FALSE, file |-> SubSeq(data, 1, n)] : n \in 0..(Len(data) - 1)}

\* format!("Error saving file {}: {}", filename, e)
ErrMsg(profile) == <<"Error saving file", profile>>
\* format!("Updated config for {}", editor_state.profile)
OkMsg(profile) == <<"Updated config for", profile>>

AppInit ==
    /\ screen = "Manager"
    /\ editor_state = NoEditor
    /\ result = "none"
    /\ running = "running"
    /\ file \in AppTexts
    /\ content = <<>>
    /\ status_log = <<>>
    /\ log_file = <<>>
    /\ io = NoWrite(file)
    /\ sessions = 0
    /\ ev = NoKey
    /\ pre = NoEditor

\* Screen::Manager, KeyCode::Char('e')
ManagerOpenEditor ==
    /\ running = "running"
    /\ screen = "Manager"
    /\ sessions < MaxSessions
    /\ \E read_ok \in BOOLEAN :
         editor_state' = New(Profile, ReadToString(file, read_ok))
    /\ screen' = "Editor"
    /\ result' = "none"
    /\ io' = NoWrite(file)
    /\ sessions' = sessions + 1
    /\ UNCHANGED <<running, file, content, status_log, log_file, ev, pre>>

\* Screen::Manager, KeyCode::Char('q')
ManagerQuit ==
    /\ running = "running"
    /\ screen = "Manager"
    /\ running' = "exited"
    /\ UNCHANGED <<screen, editor_state, result, file, content, status_log,
                   log_file, io, sessions, ev, pre>>

\* log_status(message): the append, or a panic from one of its expect()s.
\* status_log.push precedes it, and `screen = Screen::Manager` follows it.
LogStatus(msg, log_ok) ==
    /\ status_log' = Append(status_log, msg)
    /\ IF log_ok
       THEN /\ log_file' = Append(log_file, msg)
            /\ screen' = "Manager"
            /\ editor_state' = NoEditor
            /\ running' = running
       ELSE /\ log_file' = log_file
            /\ running' = "panicked"
            /\ UNCHANGED <<screen, editor_state>>

\* Screen::Editor(editor_state), Event::Key(key)
EditorKey(key) ==
    /\ running = "running"
    /\ screen = "Editor"
    /\ Admissible(editor_state, key, AppMaxLines, AppMaxBytes)
    /\ LET r == HandleEvent(editor_state, key) IN
         /\ result' = r.ret
         /\ IF r.panic
            THEN /\ running' = "panicked"
                 /\ UNCHANGED <<screen, editor_state, file, status_log,
                                log_file, io>>
            ELSE IF r.ret = "saved"
            THEN \E w \in FsWrite(file, Join(r.st.lines)), log_ok \in BOOLEAN :
                   /\ file' = w.file
                   /\ io' = [io EXCEPT !.writes = io.writes + 1,
                                        !.data = Join(r.st.lines),
                                        !.ok = w.ok]
                   /\ LogStatus(IF w.ok THEN OkMsg(r.st.profile)
                                        ELSE ErrMsg(r.st.profile), log_ok)
            ELSE IF r.ret = "cancel"
            THEN /\ screen' = "Manager"
                 /\ editor_state' = NoEditor
                 /\ UNCHANGED <<running, file, status_log, log_file, io>>
            ELSE /\ editor_state' = r.st
                 /\ UNCHANGED <<screen, running, file, status_log, log_file, io>>
    /\ UNCHANGED <<content, sessions, ev, pre>>

AppNext ==
    \/ ManagerOpenEditor
    \/ ManagerQuit
    \/ \E key \in Keys : EditorKey(key)

AppSpec == AppInit /\ [][AppNext]_vars

(***************************************************************************)
(* Properties.  Spec's are stated over the state after an event, the event *)
(* (ev) and the editor state before it (pre).                              *)
(***************************************************************************)
InSession == screen = "Editor"
Fed == screen = "Editor" /\ ev # NoKey
Handled == Fed /\ running = "running"
Hidden(st) == st.mode = "Normal" /\ ~st.show_cheatsheet
Overlaid(st) == st.mode = "Normal" /\ st.show_cheatsheet
DKey == [code |-> "Char", c |-> "D", ctrl |-> FALSE]

\* C1: after construction from any text and after any sequence of key
\* events in any mode, the buffer's line list holds at least one line.
C1_LinesNeverEmpty == InSession => Len(editor_state.lines) >= 1

\* The delete-line key has acted on a buffer whose only line had text.
C1_Witness ==
    /\ Handled /\ ev = DKey /\ Hidden(pre)
    /\ Len(pre.lines) = 1 /\ pre.lines[1] # <<>>
    /\ editor_state.lines = << <<>> >>

\* C2: in every reachable state cursor_row indexes a line and cursor_col
\* lies between 0 and the length of that line, inclusive.
C2_CursorInBounds ==
    InSession =>
        /\ editor_state.cursor_row \in 0..(Len(editor_state.lines) - 1)
        /\ editor_state.cursor_col \in 0..Len(CurLine(editor_state))

\* An up move has pulled the column left onto a shorter line.
C2_Witness ==
    /\ Handled /\ ev.code = "Up"
    /\ editor_state.cursor_row = pre.cursor_row - 1
    /\ editor_state.cursor_col < pre.cursor_col
    /\ editor_state.cursor_col = Len(CurLine(editor_state))

\* C3: the help overlay is visible only while the mode is Normal; no
\* sequence of key events reaches Insert mode with the overlay visible.
C3_OverlayOnlyInNormal ==
    InSession => (editor_state.show_cheatsheet => editor_state.mode = "Normal")

\* A mode-switch key arrived while the overlay was visible, and the editor
\* is still in Normal mode.
C3_Witness ==
    /\ Handled /\ IsChar(ev, "i") /\ Overlaid(pre)
    /\ editor_state.mode = "Normal"

\* C4: in Normal mode with the overlay visible, every key event only
\* hides the overlay: lines, cursor and mode are unchanged and no outcome
\* is returned.
C4_OverlayConsumesKey ==
    (Fed /\ Overlaid(pre)) =>
        /\ running = "running"
        /\ editor_state = [pre EXCEPT !.show_cheatsheet = FALSE]
        /\ result = "none"

\* The save combination arrived while the overlay was visible.
C4_Witness ==
    /\ Handled /\ ev = CtrlS /\ Overlaid(pre)
    /\ result = "none" /\ ~editor_state.show_cheatsheet

\* C5: in Normal mode, once the overlay-toggle key has been handled,
\* handling it again restores overlay_visible to the value it had before
\* the first of the two events, with lines, cursor and mode unchanged,
\* whichever value that was.
C5_ToggleTwiceRestores ==
    (Fed /\ ev = ToggleKey /\ pre.mode = "Normal") =>
        LET second == HandleEvent(editor_state, ToggleKey) IN
        /\ running = "running" /\ result = "none"
        /\ ~second.panic /\ second.ret = "none"
        /\ second.st = pre

\* The second of two successive toggles has been handled: the overlay was
\* visible before it, which only a toggle just before can have caused.
C5_Witness ==
    /\ Handled /\ ev = ToggleKey /\ Overlaid(pre)
    /\ ~editor_state.show_cheatsheet

\* Splitting a text on the newline character: the pieces between
\* successive newlines, one more piece than there are newlines.
SplitNL(s) ==
    LET nl == {i \in 1..Len(s) : s[i] = "LF"}
        m  == Cardinality(nl)
        cut(j) == IF j = 0 THEN 0
                  ELSE IF j = m + 1 THEN Len(s) + 1
                  ELSE CHOOSE p \in nl : Cardinality({q \in nl : q < p}) = j - 1
    IN [j \in 1..(m + 1) |-> SubSeq(s, cut(j - 1) + 1, cut(j) - 1)]

EndsWith(s, b) == s # <<>> /\ s[Len(s)] = b
DropLast(s) == SubSeq(s, 1, Len(s) - 1)

\* The split of a text after dropping its final newline, if it ends with
\* one, less one carriage return at the end of each piece that a newline
\* terminated.
LinesOfText(t) ==
    LET final  == EndsWith(t, "LF")
        pieces == SplitNL(IF final THEN DropLast(t) ELSE t)
        n      == Len(pieces)
    IN [i \in 1..n |->
          IF (i < n \/ final) /\ EndsWith(pieces[i], "CR")
          THEN DropLast(pieces[i]) ELSE pieces[i]]

Unedited == InSession /\ ev = NoKey

\* C6 as stated: for non-empty T the lines of the unedited buffer are T
\* split on the newline character, and the text joined at save time is made
\* of exactly those lines; for empty T one empty line, joined to the empty
\* text.
C6_LinesAreSplitOnNewline ==
    Unedited =>
        IF content # <<>>
        THEN /\ editor_state.lines = SplitNL(content)
             /\ SplitNL(Join(editor_state.lines)) = editor_state.lines
        ELSE /\ editor_state.lines = << <<>> >>
             /\ Join(editor_state.lines) = <<>>

\* C6 amended: for non-empty T the lines of the unedited buffer are T split
\* on the newline character after dropping one final newline of T, with one
\* carriage return dropped from the end of every piece that a newline
\* terminated; the text joined at save time is made of exactly those lines;
\* for empty T one empty line, joined to the empty text.
C6_LinesAreTextLines ==
    Unedited =>
        IF content # <<>>
        THEN /\ editor_state.lines = LinesOfText(content)
             /\ SplitNL(Join(editor_state.lines)) = editor_state.lines
        ELSE /\ editor_state.lines = << <<>> >>
             /\ Join(editor_state.lines) = <<>>

\* A buffer built from a text with CR LF inside it: two lines, no CR kept.
C6_Witness ==
    /\ Unedited
    /\ \E i \in 1..(Len(content) - 1) : content[i] = "CR" /\ content[i + 1] = "LF"
    /\ Len(editor_state.lines) = 2
    /\ Len(Join(editor_state.lines)) = Len(content) - 1

\* C7: the save combination, in Normal mode with the overlay hidden or in
\* Insert mode, returns the Saved outcome and leaves lines, cursor, mode
\* and overlay as they were; in Insert mode no 's' is inserted.
C7_SaveReturnsSaved ==
    (Fed /\ ev = CtrlS /\ ~Overlaid(pre)) =>
        /\ running = "running"
        /\ result = "saved"
        /\ editor_state = pre

\* The save combination was handled in Insert mode, after text.
C7_Witness ==
    /\ Fed /\ ev = CtrlS /\ pre.mode = "Insert" /\ pre.cursor_col > 0
    /\ result = "saved"

\* C8: the cancel key returns Cancelled in Normal mode with the overlay
\* hidden; in Insert mode it returns no outcome, sets the mode to Normal
\* and leaves lines and cursor unchanged; no key event in Insert mode
\* returns Cancelled.
C8_CancelOnlyInNormal ==
    /\ (Fed /\ ev = EscKey /\ Hidden(pre)) =>
           running = "running" /\ result = "cancel"
    /\ (Fed /\ ev = EscKey /\ pre.mode = "Insert") =>
           /\ running = "running"
           /\ result = "none"
           /\ editor_state = [pre EXCEPT !.mode = "Normal"]
    /\ (Fed /\ pre.mode = "Insert") => result # "cancel"

\* The cancel key was handled in Insert mode with the cursor inside text.
C8_Witness ==
    /\ Fed /\ ev = EscKey /\ pre.mode = "Insert" /\ pre.cursor_col > 0
    /\ editor_state.mode = "Normal" /\ result = "none"

Last(q) == q[Len(q)]

\* C9: when the editor returns Saved and the file write fails, the error
\* is recorded in the status log and in the persistent log, the Manager
\* screen is shown again and the application keeps running: nothing on this
\* path terminates it.
C9_FailedSaveIsNotFatal ==
    (result = "saved" /\ io.writes = 1 /\ ~io.ok) =>
        /\ running # "panicked"
        /\ screen = "Manager"
        /\ status_log # <<>> /\ Last(status_log) = ErrMsg(Profile)
        /\ log_file # <<>> /\ Last(log_file) = ErrMsg(Profile)

\* What C10 says of one step of the event loop.
C10_Step ==
    IF screen = "Editor"
    THEN /\ (result' = "saved") <=> (io'.writes = io.writes + 1)
         /\ io'.writes \in {io.writes, io.writes + 1} /\ io'.writes <= 1
         /\ (result' = "saved") =>
                /\ SplitNL(io'.data) = editor_state.lines
                /\ io'.ok => file' = io'.data
         /\ (result' # "saved") => file' = io.before /\ io'.writes = 0
         /\ (result' = "cancel") => screen' = "Manager"
    ELSE /\ file' = file
         /\ io'.writes # io.writes => io'.writes = 0

\* C10: in a session the profile's file is written exactly when
\* handle_event returns Saved, at most once, with the buffer's lines at that
\* moment joined by newline; until then, and when the session ends with
\* Cancelled, the file is as it was when the session was opened.
C10_WriteIffSaved == [][C10_Step]_vars

\* A session has ended with Saved and a successful write of two lines that
\* changed the file.
C10_Witness ==
    /\ screen = "Manager" /\ result = "saved"
    /\ io.writes = 1 /\ io.ok
    /\ file = io.data /\ file # io.before
    /\ Len(SplitNL(file)) = 2

(***************************************************************************)
(* Properties of the editing operations.                                   *)
(***************************************************************************)
PreLine == pre.lines[pre.cursor_row + 1]
SameText == editor_state.lines = pre.lines
SameCursor ==
    /\ editor_state.cursor_row = pre.cursor_row
    /\ editor_state.cursor_col = pre.cursor_col
Returned == running = "running" /\ result = "none"

\* C11: for every reachable editor state and every key event, handling the
\* event completes without raising a failure: every insertion, removal and
\* split happens at an offset valid for the line.
C11_HandlerNeverFails == running # "panicked"

\* What C12 says of one step of the event loop.
C12_Step ==
    /\ (screen = "Manager" /\ screen' = "Editor") =>
           /\ editor_state'.mode = "Normal"
           /\ editor_state'.cursor_row = 0 /\ editor_state'.cursor_col = 0
           /\ ~editor_state'.show_cheatsheet
           /\ \/ editor_state'.lines =
                    (IF file = <<>> THEN << <<>> >> ELSE LinesOfText(file))
              \/ editor_state'.lines = << <<>> >>
    /\ (screen = "Editor" /\ result' \in {"saved", "cancel"}) =>
           screen' = "Manager"

\* C12: every session starts in Normal mode at (0,0) with the overlay
\* hidden and the lines of the file's current text (one empty line when the
\* file cannot be read), however an earlier session ended; and whenever a
\* session returns Saved or Cancelled the Manager screen replaces the
\* Editor screen.
C12_SessionsStartFresh == [][C12_Step]_vars

IsLeft(key) == IsChar(key, "h") \/ key.code = "Left"
IsRight(key) == IsChar(key, "l") \/ key.code = "Right"

\* C13: in Normal mode with the overlay hidden a left or right key never
\* changes cursor_row; left at column 0 and right at end of line leave the
\* cursor where it is, also when a previous or next line exists.
C13_NormalLeftRightStayOnRow ==
    (Fed /\ Hidden(pre) /\ (IsLeft(ev) \/ IsRight(ev))) =>
        /\ Returned
        /\ editor_state.cursor_row = pre.cursor_row
        /\ (IsLeft(ev) /\ pre.cursor_col = 0) => editor_state = pre
        /\ (IsRight(ev) /\ pre.cursor_col = Len(PreLine)) => editor_state = pre

\* A right key was handled at the end of a line that has a line below it.
C13_Witness ==
    /\ Handled /\ Hidden(pre) /\ IsRight(ev)
    /\ pre.cursor_col = Len(PreLine) /\ Len(PreLine) > 0
    /\ pre.cursor_row + 1 < Len(pre.lines)
    /\ editor_state = pre

\* C14: in Insert mode a right move at end of line goes to column 0 of the
\* next line when there is one, a left move at column 0 goes to the end of
\* the previous line when there is one; at the very start and very end of
\* the buffer the cursor stays; lines and mode are unchanged.
C14_InsertLeftRightWrap ==
    (Fed /\ pre.mode = "Insert" /\ ev.code \in {"Left", "Right"}) =>
        /\ Returned /\ SameText /\ editor_state.mode = "Insert"
        /\ (ev.code = "Right" /\ pre.cursor_col = Len(PreLine)) =>
               IF pre.cursor_row + 1 < Len(pre.lines)
               THEN /\ editor_state.cursor_row = pre.cursor_row + 1
                    /\ editor_state.cursor_col = 0
               ELSE SameCursor
        /\ (ev.code = "Left" /\ pre.cursor_col = 0) =>
               IF pre.cursor_row > 0
               THEN /\ editor_state.cursor_row = pre.cursor_row - 1
                    /\ editor_state.cursor_col = Len(pre.lines[pre.cursor_row])
               ELSE SameCursor

\* A left move at column 0 has landed at the end of a non-empty line above.
C14_Witness ==
    /\ Handled /\ pre.mode = "Insert" /\ ev.code = "Left"
    /\ pre.cursor_col = 0 /\ pre.cursor_row > 0
    /\ editor_state.cursor_row = pre.cursor_row - 1
    /\ editor_state.cursor_col > 0

IsUp(st, key) ==
    \/ Hidden(st) /\ (IsChar(key, "k") \/ key.code = "Up")
    \/ st.mode = "Insert" /\ key.code = "Up"
IsDown(st, key) ==
    \/ Hidden(st) /\ (IsChar(key, "j") \/ key.code = "Down")
    \/ st.mode = "Insert" /\ key.code = "Down"

\* The cursor on row `row`, at the lesser of the old column and that
\* line's length.
MovedToRow(row) ==
    /\ editor_state.cursor_row = row
    /\ editor_state.cursor_col =
           (IF pre.cursor_col <= Len(pre.lines[row + 1])
            THEN pre.cursor_col ELSE Len(pre.lines[row + 1]))

\* C15: in both modes an up or down move that changes the row sets the
\* column to the minimum of its old value and the length of the line moved
\* to; up on the first line and down on the last leave row and column
\* unchanged.
C15_UpDownClampColumn ==
    /\ (Fed /\ IsUp(pre, ev)) =>
           /\ Returned /\ SameText /\ editor_state.mode = pre.mode
           /\ IF pre.cursor_row > 0
              THEN MovedToRow(pre.cursor_row - 1) ELSE SameCursor
    /\ (Fed /\ IsDown(pre, ev)) =>
           /\ Returned /\ SameText /\ editor_state.mode = pre.mode
           /\ IF pre.cursor_row + 1 < Len(pre.lines)
              THEN MovedToRow(pre.cursor_row + 1) ELSE SameCursor

\* A down move in Insert mode has pulled the column left onto a shorter
\* line.
C15_Witness ==
    /\ Handled /\ pre.mode = "Insert" /\ ev.code = "Down"
    /\ editor_state.cursor_row = pre.cursor_row + 1
    /\ editor_state.cursor_col < pre.cursor_col

\* The line `line` with the bytes of character c put in at byte offset col.
WithCharAt(line, col, c) ==
    SubSeq(line, 1, col) \o Utf8(c) \o SubSeq(line, col + 1, Len(line))

\* C16: in Normal mode with the overlay hidden the append key moves the
\* cursor right by one only when it is before the end of the line, never
\* past the end or to another row, leaves the lines alone and switches to
\* Insert mode; a character typed next is inserted at that column.
C16_AppendThenType ==
    (Fed /\ Hidden(pre) /\ IsChar(ev, "a")) =>
        /\ Returned /\ SameText
        /\ editor_state.mode = "Insert"
        /\ editor_state.cursor_row = pre.cursor_row
        /\ editor_state.cursor_col =
               (IF pre.cursor_col < Len(PreLine)
                THEN pre.cursor_col + 1 ELSE pre.cursor_col)
        /\ \A c \in TypedChars :
             LET typed == HandleEvent(editor_state,
                                      [code |-> "Char", c |-> c, ctrl |-> FALSE])
             IN /\ ~typed.panic
                /\ typed.st.lines =
                       [pre.lines EXCEPT ![pre.cursor_row + 1] =
                           WithCharAt(PreLine, editor_state.cursor_col, c)]

\* C17: in Normal mode with the overlay hidden the open-line key inserts
\* one empty line right after the current row, changes no existing line and
\* splits none, puts the cursor at column 0 of the new line and switches to
\* Insert mode.
C17_OpenLineBelow ==
    (Fed /\ Hidden(pre) /\ IsChar(ev, "o")) =>
        /\ Returned
        /\ Len(editor_state.lines) = Len(pre.lines) + 1
        /\ \A i \in 1..Len(pre.lines) :
             IF i <= pre.cursor_row + 1
             THEN editor_state.lines[i] = pre.lines[i]
             ELSE editor_state.lines[i + 1] = pre.lines[i]
        /\ editor_state.lines[pre.cursor_row + 2] = <<>>
        /\ editor_state.cursor_row = pre.cursor_row + 1
        /\ editor_state.cursor_col = 0
        /\ editor_state.mode = "Insert"
        /\ ~editor_state.show_cheatsheet

\* The open-line key was handled with the cursor inside the text of the
\* first of two lines.
C17_Witness ==
    /\ Handled /\ Hidden(pre) /\ IsChar(ev, "o")
    /\ Len(pre.lines) = 2 /\ pre.cursor_row = 0
    /\ pre.cursor_col > 0 /\ pre.cursor_col < Len(PreLine)
    /\ Len(editor_state.lines) = 3

\* C18: in Normal mode with the overlay hidden the delete-line key, on a
\* buffer of more than one line, removes exactly the line at cursor_row and
\* keeps the others in order; the row becomes the new last line if the
\* deleted line was last and is kept otherwise, the column is clamped to
\* the new current line; on a buffer of one line it empties the line and
\* sets the column to 0.  The mode is unchanged.
C18_DeleteLine ==
    (Fed /\ Hidden(pre) /\ ev = DKey) =>
        /\ Returned /\ editor_state.mode = pre.mode
        /\ IF Len(pre.lines) > 1
           THEN /\ Len(editor_state.lines) = Len(pre.lines) - 1
                /\ \A i \in 1..Len(editor_state.lines) :
                     editor_state.lines[i] =
                         (IF i <= pre.cursor_row
                          THEN pre.lines[i] ELSE pre.lines[i + 1])
                /\ editor_state.cursor_row =
                       (IF pre.cursor_row = Len(pre.lines) - 1
                        THEN Len(pre.lines) - 2 ELSE pre.cursor_row)
                /\ editor_state.cursor_col =
                       (IF pre.cursor_col <= Len(CurLine(editor_state))
                        THEN pre.cursor_col ELSE Len(CurLine(editor_state)))
           ELSE /\ editor_state.lines = << <<>> >>
                /\ editor_state.cursor_row = 0
                /\ editor_state.cursor_col = 0

\* The middle line of three was deleted and the column clamped to the
\* line that took its place.
C18_Witness ==
    /\ Handled /\ Hidden(pre) /\ ev = DKey
    /\ Len(pre.lines) = 3 /\ pre.cursor_row = 1
    /\ editor_state.cursor_row = 1
    /\ editor_state.cursor_col < pre.cursor_col

\* The bytes [from, to) of line are exactly one character.
OneCharAt(line, from, to) ==
    /\ from < to
    /\ IsCharBoundary(line, from) /\ IsCharBoundary(line, to)
    /\ \A k \in (from + 1)..(to - 1) : ~IsCharBoundary(line, k)

\* C19: in Insert mode backspace with cursor_col > 0 removes the character
\* just before the cursor (the one holding the byte at cursor_col - 1) and
\* decrements the column; with cursor_col = 0
\* and cursor_row > 0 it appends the current line to the previous one,
\* removes the current line and puts the cursor on the previous row at the
\* length that line had; at (0,0) it changes nothing.
C19_Backspace ==
    (Fed /\ pre.mode = "Insert" /\ ev.code = "Backspace") =>
        /\ Returned /\ editor_state.mode = "Insert"
        /\ IF pre.cursor_col > 0
           THEN /\ \E from \in 0..(pre.cursor_col - 1) :
                   \E to \in pre.cursor_col..Len(PreLine) :
                     /\ OneCharAt(PreLine, from, to)
                     /\ editor_state.lines =
                            [pre.lines EXCEPT ![pre.cursor_row + 1] =
                                SubSeq(PreLine, 1, from)
                                    \o SubSeq(PreLine, to + 1, Len(PreLine))]
                /\ editor_state.cursor_row = pre.cursor_row
                /\ editor_state.cursor_col = pre.cursor_col - 1
           ELSE IF pre.cursor_row > 0
           THEN /\ Len(editor_state.lines) = Len(pre.lines) - 1
                /\ \A i \in 1..Len(editor_state.lines) :
                     editor_state.lines[i] =
                         (IF i < pre.cursor_row THEN pre.lines[i]
                          ELSE IF i = pre.cursor_row
                          THEN pre.lines[i] \o pre.lines[i + 1]
                          ELSE pre.lines[i + 1])
                /\ editor_state.cursor_row = pre.cursor_row - 1
                /\ editor_state.cursor_col = Len(pre.lines[pre.cursor_row])
           ELSE editor_state = pre

\* C20: in Insert mode the newline key splits the current line at
\* cursor_col: the line keeps what is before the column, a new line with
\* the rest is inserted right below, the cursor goes to column 0 of it, the
\* line count grows by one and the other lines are unchanged.
C20_EnterSplitsLine ==
    (Fed /\ pre.mode = "Insert" /\ ev.code = "Enter") =>
        /\ Returned /\ editor_state.mode = "Insert"
        /\ Len(editor_state.lines) = Len(pre.lines) + 1
        /\ \A i \in 1..Len(pre.lines) :
             /\ i < pre.cursor_row + 1 => editor_state.lines[i] = pre.lines[i]
             /\ i > pre.cursor_row + 1 => editor_state.lines[i + 1] = pre.lines[i]
        /\ editor_state.lines[pre.cursor_row + 1] =
               SubSeq(PreLine, 1, pre.cursor_col)
        /\ editor_state.lines[pre.cursor_row + 2] =
               SubSeq(PreLine, pre.cursor_col + 1, Len(PreLine))
        /\ editor_state.cursor_row = pre.cursor_row + 1
        /\ editor_state.cursor_col = 0

(***************************************************************************)
(* Properties of typing, deleting, key synonyms and round trips.           *)
(***************************************************************************)
CharKey(c) == [code |-> "Char", c |-> c, ctrl |-> FALSE]
CtrlKey(c) == [code |-> "Char", c |-> c, ctrl |-> TRUE]
CodeKey(code) == [code |-> code, c |-> "", ctrl |-> FALSE]
Editing == InSession /\ running = "running" /\ result = "none"
SamePlace(st, old) ==
    /\ st.lines = old.lines
    /\ st.cursor_row = old.cursor_row
    /\ st.cursor_col = old.cursor_col

\* C21: in Insert mode a character key without the control modifier (the
\* letters h, j, k, l, i, a, o, x, D and '?' included) inserts the character
\* at cursor_col of the current line and advances cursor_col by one, leaving
\* the other lines, the row and the mode alone; a character key with the
\* control modifier never changes the buffer.
C21_InsertChar ==
    (Editing /\ editor_state.mode = "Insert") =>
        \A c \in CharKeys :
          /\ LET typed == HandleEvent(editor_state, CharKey(c))
             IN /\ ~typed.panic /\ typed.ret = "none"
                /\ typed.st =
                       [editor_state EXCEPT
                          !.lines[editor_state.cursor_row + 1] =
                              WithCharAt(CurLine(editor_state),
                                         editor_state.cursor_col, c),
                          !.cursor_col = editor_state.cursor_col + 1]
          /\ LET ctl == HandleEvent(editor_state, CtrlKey(c))
             IN ~ctl.panic /\ ctl.st.lines = editor_state.lines

\* C22: in Normal mode with the overlay hidden the delete-char key removes
\* the character at cursor_col when the cursor is before the end of the
\* line and does nothing at the end of the line; row, column, mode, line
\* count and the other lines are unchanged in both cases.
C22_DeleteChar ==
    (Fed /\ Hidden(pre) /\ IsChar(ev, "x")) =>
        /\ Returned
        /\ editor_state.cursor_row = pre.cursor_row
        /\ editor_state.cursor_col = pre.cursor_col
        /\ editor_state.mode = pre.mode
        /\ ~editor_state.show_cheatsheet
        /\ IF pre.cursor_col < Len(PreLine)
           THEN \E to \in (pre.cursor_col + 1)..Len(PreLine) :
                  /\ OneCharAt(PreLine, pre.cursor_col, to)
                  /\ editor_state.lines =
                         [pre.lines EXCEPT ![pre.cursor_row + 1] =
                             SubSeq(PreLine, 1, pre.cursor_col)
                                 \o SubSeq(PreLine, to + 1, Len(PreLine))]
           ELSE SameText

\* The arrow key that Normal mode takes for the same move as a letter, and
\* the letter for an arrow.
Synonym(key) ==
    IF IsChar(key, "h") THEN CodeKey("Left")
    ELSE IF IsChar(key, "l") THEN CodeKey("Right")
    ELSE IF IsChar(key, "k") THEN CodeKey("Up")
    ELSE IF IsChar(key, "j") THEN CodeKey("Down")
    ELSE IF key.code = "Left" THEN CharKey("h")
    ELSE IF key.code = "Right" THEN CharKey("l")
    ELSE IF key.code = "Up" THEN CharKey("k")
    ELSE CharKey("j")
IsMove(key) ==
    \/ key.code \in {"Left", "Right", "Up", "Down"}
    \/ key.code = "Char" /\ key.c \in {"h", "j", "k", "l"}

\* C23: in Normal mode with the overlay hidden each letter movement key
\* gives exactly the next state of its arrow key (h = Left, l = Right,
\* k = Up, j = Down), and none of the eight keys changes lines, mode or the
\* overlay flag.
C23_LettersAreArrows ==
    (Fed /\ Hidden(pre) /\ IsMove(ev)) =>
        /\ Returned /\ SameText
        /\ editor_state.mode = pre.mode
        /\ editor_state.show_cheatsheet = pre.show_cheatsheet
        /\ HandleEvent(pre, Synonym(ev)) = Ret(editor_state, "none")

\* An arrow key has moved the cursor to another row and another column.
C23_Witness ==
    /\ Handled /\ Hidden(pre) /\ ev = CodeKey("Down")
    /\ editor_state.cursor_row = pre.cursor_row + 1
    /\ editor_state.cursor_col < pre.cursor_col

\* The keys that no arm of a mode's match takes.
NotInNormalTable(key) ==
    /\ key.code \notin {"Left", "Right", "Up", "Down", "Esc"}
    /\ ~(key.code = "Char"
           /\ key.c \in {"h", "j", "k", "l", "i", "a", "o", "x", "D", "?"})
    /\ key # CtrlS
NotInInsertTable(key) ==
    /\ key.code \notin {"Left", "Right", "Up", "Down", "Esc", "Enter",
                         "Backspace"}
    /\ ~(key.code = "Char" /\ ~key.ctrl)
    /\ key # CtrlS
Untouched == Returned /\ editor_state = pre

\* C24 as stated: a key that is not in the current mode's dispatch table
\* (Enter or Backspace in Normal mode, a control-modified character other
\* than the save combination in Insert mode) leaves lines, cursor_row,
\* cursor_col, mode and the overlay flag unchanged and returns no outcome.
C24_UnrecognisedKeyIsNoOp ==
    (Fed /\ \/ pre.mode = "Normal" /\ NotInNormalTable(ev)
            \/ pre.mode = "Insert" /\ NotInInsertTable(ev)) => Untouched

\* C24 amended: the same, in Normal mode with the overlay hidden and in
\* Insert mode (a key pressed while the overlay shows hides the overlay).
C24_UnrecognisedKeyIsNoOpWhenHidden ==
    (Fed /\ \/ Hidden(pre) /\ NotInNormalTable(ev)
            \/ pre.mode = "Insert" /\ NotInInsertTable(ev)) => Untouched

\* A control-modified 'a' was handled in Insert mode with the cursor inside
\* a buffer that has text.
C24_Witness ==
    /\ Handled /\ pre.mode = "Insert" /\ ev = CtrlKey("a")
    /\ pre.cursor_col > 0
    /\ editor_state = pre

\* C25: in Insert mode, from every reachable state, the newline key and
\* then the backspace key restore lines, cursor_row and cursor_col to what
\* they were before the two events.
C25_EnterBackspaceRoundTrip ==
    (Editing /\ editor_state.mode = "Insert") =>
        LET split  == HandleEvent(editor_state, CodeKey("Enter"))
            joined == HandleEvent(split.st, CodeKey("Backspace"))
        IN /\ ~split.panic /\ split.ret = "none"
           /\ ~joined.panic /\ joined.ret = "none"
           /\ SamePlace(joined.st, editor_state)

\* C26: in Insert mode, from every reachable state, inserting any character
\* (no control modifier) and then backspace restore lines, cursor_row and
\* cursor_col to what they were before the two events.
C26_CharBackspaceRoundTrip ==
    (Editing /\ editor_state.mode = "Insert") =>
        \A c \in CharKeys :
          LET typed  == HandleEvent(editor_state, CharKey(c))
              erased == HandleEvent(typed.st, CodeKey("Backspace"))
          IN /\ ~typed.panic /\ typed.ret = "none"
             /\ ~erased.panic /\ erased.ret = "none"
             /\ SamePlace(erased.st, editor_state)

\* C27: from every reachable state of a running session the save
\* combination, fed repeatedly, returns "saved" after at most two events:
\* after one when the overlay is hidden (either mode), after exactly two
\* when it is visible (the first only hides the overlay); lines and cursor
\* at the "saved" outcome are those before the first save event.
C27_SaveWithinTwoEvents ==
    (Fed /\ ev = CtrlS) =>
        /\ running = "running"
        /\ SamePlace(editor_state, pre)
        /\ IF pre.show_cheatsheet
           THEN /\ result = "none"
                /\ editor_state = [pre EXCEPT !.show_cheatsheet = FALSE]
                /\ LET again == HandleEvent(editor_state, CtrlS)
                   IN /\ ~again.panic /\ again.ret = "saved"
                      /\ SamePlace(again.st, pre)
           ELSE result = "saved"

\* The save combination was fed while the overlay covered a buffer whose
\* cursor is away from the origin, and only hid the overlay.
C27_Witness ==
    /\ Handled /\ ev = CtrlS /\ pre.show_cheatsheet
    /\ pre.cursor_row > 0 /\ pre.cursor_col > 0
    /\ result = "none" /\ ~editor_state.show_cheatsheet

====
